---- MODULE Spec2Model ----
(***************************************************************************)
(* Model of the two pure pipelines of main.py:                             *)
(*   - parse_steps_from_tcm_field (tolerant parser of the tracker's        *)
(*     "steps" field) with its helpers _clean, _sanitize_for_xml and       *)
(*     _try_parse;                                                         *)
(*   - extract_json_object, ensure_step_defaults, validate_payload and     *)
(*     their composition in run_conversion.                                *)
(*                                                                         *)
(* Text is modelled as a sequence of lexical items.  An item is a markup   *)
(* tag or a single character together with the number of times it has been *)
(* HTML-escaped: the tag <b> at level 0 is the text "<b>", at level 1 it   *)
(* is "&lt;b&gt;", at level 2 "&amp;lt;b&amp;gt;"; the character & at      *)
(* level 0 is a bare ampersand, at level 1 "&amp;", and so on.  A          *)
(* character other than & at level 1 is a character reference ("&#65;").   *)
(* A named reference that XML does not define ("&foo;", "&APOS;") is an     *)
(* item of its own: at level 0 it is the reference, at level 1 its & is    *)
(* escaped ("&amp;foo;").                                                  *)
(***************************************************************************)
EXTENDS Integers, Sequences, FiniteSets, TLC

VARIABLES
    carrier,            \* _clean: the text carrier handed to the first call
    cleaned,            \* _clean: results of the successive calls
    steps_field_value,  \* parse_steps_from_tcm_field: its argument
    parse_result,       \* parse_steps_from_tcm_field: what the call did
    xml_blob,           \* parse_steps_from_tcm_field: its local, before sanitizing
    output_text,        \* extract_json_object: the model's output text
    extract_result,     \* extract_json_object: what the call did
    json_candidate,     \* extract_json_object: its local candidate
    payload,            \* the structured output object being processed
    given,              \* the object as it was before the first call on it
    repaired,           \* payload after each ensure_step_defaults call
    validation,         \* validate_payload: what the call did
    azure_steps,        \* run_conversion: the StepSequence argument
    pc,                 \* run_conversion: the statement to run next
    conv_result,        \* run_conversion: what the call did
    sanitize_arg,       \* _sanitize_for_xml: the text handed to the first call
    sanitized           \* _sanitize_for_xml: results of the successive calls

cleanVars == <<carrier, cleaned>>
parseVars == <<steps_field_value, parse_result, xml_blob>>
extractVars == <<output_text, extract_result, json_candidate>>
payloadVars == <<payload, given, repaired, validation>>
convVars == <<azure_steps, pc, conv_result>>
sanitizeVars == <<sanitize_arg, sanitized>>

vars == <<carrier, cleaned, steps_field_value, parse_result, xml_blob,
          output_text, extract_result, json_candidate, payload, given,
          repaired, validation, azure_steps, pc, conv_result, sanitize_arg,
          sanitized>>

(***************************************************************************)
(* Bounds                                                                  *)
(***************************************************************************)
MaxEsc == 2         \* deepest HTML-escaping level of an input item
MaxText == 3        \* longest text carrier handed to _clean
MaxCleans == 2      \* number of successive _clean calls
MaxFrags == 4       \* number of fragments a steps field is assembled from
MaxJson == 5        \* longest model output handed to extract_json_object
MaxSteps == 2       \* longest automated_steps list of a payload
MaxRepairs == 2     \* number of successive ensure_step_defaults calls
MaxBlocks == 3      \* number of pieces a several-block steps field is made of
MaxBlob == 3        \* longest text handed to _sanitize_for_xml
MaxSanitizes == 2   \* number of successive _sanitize_for_xml calls

(***************************************************************************)
(* Lexical items                                                           *)
(***************************************************************************)
Open(n, e) == [k |-> "open", n |-> n, e |-> e]
Close(n, e) == [k |-> "close", n |-> n, e |-> e]
Chr(c) == [k |-> "chr", n |-> c, e |-> 0]
Amp(e) == [k |-> "chr", n |-> "&", e |-> e]

Ent(n, e) == [k |-> "ent", n |-> n, e |-> e]
NumRef == [k |-> "chr", n |-> "A", e |-> 1]     \* "&#65;"

SP == Chr(" ")
CTRL == Chr("^A")       \* the control character 0x01

IsTag(t) == t.k \in {"open", "close"}
IsMarkup(t) == IsTag(t) /\ t.e = 0
IsWs(t) == t = SP
IsCtrl(t) == t = CTRL
IsBareAmp(t) == t.k = "chr" /\ t.n = "&" /\ t.e = 0
\* "&name;" with a name outside lt, gt, amp, apos, quot (XML names are
\* case-sensitive, so "&APOS;" is undefined)
IsUndefinedEntity(t) == t.k = "ent" /\ t.e = 0
\* (lt|gt|amp|apos|quot); matched under re.IGNORECASE
MatchesPredefinedIgnoringCase(t) == t.k = "ent" /\ t.n = "APOS"

\* the subsequence of s at the indices in keep, in order
SubSeqAt(s, keep) ==
    LET RECURSIVE F(_)
        F(i) == IF i > Len(s) THEN <<>>
                ELSE (IF i \in keep THEN <<s[i]>> ELSE <<>>) \o F(i + 1)
    IN F(1)

\* str.strip(): leading and trailing whitespace removed
RECURSIVE LStrip(_)
LStrip(s) == IF s # <<>> /\ IsWs(Head(s)) THEN LStrip(Tail(s)) ELSE s

RECURSIVE RStrip(_)
RStrip(s) ==
    IF s # <<>> /\ IsWs(s[Len(s)]) THEN RStrip(SubSeq(s, 1, Len(s) - 1)) ELSE s

Strip(s) == RStrip(LStrip(s))

\* html.unescape: one pass, every entity replaced by the text it stands for
unescape(s) ==
    [i \in DOMAIN s |-> IF s[i].e > 0 THEN [s[i] EXCEPT !.e = @ - 1] ELSE s[i]]

\* re.sub(r"<[^>]+>", " ", x)
strip_tags(s) == [i \in DOMAIN s |-> IF IsMarkup(s[i]) THEN SP ELSE s[i]]

\* re.sub(r"\s+", " ", x)
collapse_ws(s) ==
    SubSeqAt(s, {i \in DOMAIN s : ~(IsWs(s[i]) /\ i > 1 /\ IsWs(s[i - 1]))})

_clean_tags_first(x) == Strip(collapse_ws(unescape(strip_tags(x))))

_clean(x) == Strip(collapse_ws(strip_tags(unescape(x))))

(***************************************************************************)
(* _clean called repeatedly on a text carrier                              *)
(***************************************************************************)
CleanItems ==
    {Chr("a"), SP}
        \cup {Amp(e) : e \in 0..MaxEsc}
        \cup {Open("b", e) : e \in 0..MaxEsc}
        \cup {Close("b", e) : e \in 0..MaxEsc}

SeqsUpTo(S, n) == UNION {[1..m -> S] : m \in 0..n}

Idle == [called |-> FALSE]

\* a local variable the call has not assigned
NotReached == [reached |-> FALSE]

\* the variables of the operations a specification does not exercise
CleanUnused == carrier = <<>> /\ cleaned = <<>>
ParseUnused ==
    /\ steps_field_value = [isNone |-> TRUE, s |-> <<>>]
    /\ parse_result = Idle
    /\ xml_blob = NotReached
ExtractUnused ==
    output_text = <<>> /\ extract_result = Idle /\ json_candidate = NotReached
SanitizeUnused == sanitize_arg = <<>> /\ sanitized = <<>>
PayloadUnused ==
    /\ payload = [t |-> "none", v |-> "none"]
    /\ given = [t |-> "none", v |-> "none"]
    /\ repaired = <<>>
    /\ validation = Idle
ConvUnused == azure_steps = <<>> /\ pc = "idle" /\ conv_result = Idle

InitClean ==
    /\ carrier \in SeqsUpTo(CleanItems, MaxText)
    /\ cleaned = <<>>
    /\ SanitizeUnused
    /\ ParseUnused
    /\ ExtractUnused
    /\ PayloadUnused
    /\ ConvUnused

CleanCarrier ==
    /\ Len(cleaned) < MaxCleans
    /\ cleaned' = Append(cleaned,
                         _clean(IF cleaned = <<>> THEN carrier
                                ELSE cleaned[Len(cleaned)]))
    /\ UNCHANGED <<carrier, parseVars, extractVars, payloadVars, convVars,
                   sanitizeVars>>

NextClean == CleanCarrier

SpecClean == InitClean /\ [][NextClean]_vars

\* C10 (as stated): cleaning a text carrier twice yields the same result as
\* cleaning it once, for every text, doubly escaped markup included.
CleanIdempotentAnyText ==
    Len(cleaned) >= 2 => cleaned[2] = cleaned[1]

EscapedAtMostOnce(s) == \A i \in DOMAIN s : s[i].e <= 1

\* C10 (amended): cleaning twice equals cleaning once for every text whose
\* entities are escaped at most once (one html.unescape leaves no entity).
CleanIdempotentSinglyEscaped ==
    (Len(cleaned) >= 2 /\ EscapedAtMostOnce(carrier)) => cleaned[2] = cleaned[1]

\* a singly escaped tag was unescaped, stripped, and the second call ran
CleanTwiceOnEscapedTag ==
    /\ Len(cleaned) >= 2
    /\ EscapedAtMostOnce(carrier)
    /\ \E i \in DOMAIN carrier : IsTag(carrier[i]) /\ carrier[i].e = 1
    /\ \E i \in DOMAIN carrier : carrier[i] = Chr("a")
    /\ cleaned[1] # carrier

(***************************************************************************)
(* xml.etree.ElementTree on lexical items.  An element is                  *)
(* [tag, kids]; its kids are elements and character-data items in document *)
(* order (ElementTree's text and tail fields, interleaved).                *)
(***************************************************************************)
Elem(tag, kids) == [tag |-> tag, kids |-> kids]
IsElem(x) == "tag" \in DOMAIN x
None == Elem("#none", <<>>)

ParseError == [ok |-> FALSE, root |-> None]

\* character data: the parser resolves one level of &lt; &gt; &amp;
xml_chardata(t) == IF t.e > 0 THEN [t EXCEPT !.e = @ - 1] ELSE t

\* ET.fromstring: st is the stack of open elements under the document node
RECURSIVE XmlFeed(_, _, _)
XmlFeed(s, i, st) ==
    LET n == Len(st)
        top == st[n]
        put(x) == [st EXCEPT ![n] = Elem(top.tag, Append(top.kids, x))]
    IN  IF i > Len(s)
        THEN IF n = 1 /\ Len(top.kids) = 1
             THEN [ok |-> TRUE, root |-> top.kids[1]]
             ELSE ParseError                     \* no element / unclosed
        ELSE LET t == s[i] IN
             IF IsCtrl(t) \/ IsBareAmp(t) \/ IsUndefinedEntity(t)
             THEN ParseError                     \* not well-formed
             ELSE IF IsMarkup(t) /\ t.k = "open"
             THEN IF n = 1 /\ Len(top.kids) > 0
                  THEN ParseError                \* junk after root
                  ELSE XmlFeed(s, i + 1, Append(st, Elem(t.n, <<>>)))
             ELSE IF IsMarkup(t)
             THEN IF n >= 2 /\ top.tag = t.n
                  THEN XmlFeed(s, i + 1,
                         [j \in 1..(n - 1) |->
                            IF j = n - 1
                            THEN Elem(st[j].tag, Append(st[j].kids, top))
                            ELSE st[j]])
                  ELSE ParseError                \* mismatched tag
             ELSE IF n = 1
             THEN IF IsWs(t) THEN XmlFeed(s, i + 1, st)
                  ELSE ParseError                \* text outside the root
             ELSE XmlFeed(s, i + 1, put(xml_chardata(t)))

fromstring(s) == XmlFeed(s, 1, <<Elem("#document", <<>>)>>)

\* every element below node, in document order (node itself excluded)
RECURSIVE Descendants(_)
Descendants(node) ==
    LET RECURSIVE F(_)
        F(i) == IF i > Len(node.kids) THEN <<>>
                ELSE (IF IsElem(node.kids[i])
                      THEN <<node.kids[i]>> \o Descendants(node.kids[i])
                      ELSE <<>>) \o F(i + 1)
    IN F(1)

\* elem.findall(".//tag")
findall_below(node, tag) == SelectSeq(Descendants(node), LAMBDA x : x.tag = tag)

\* elem.findall("./tag")
findall_children(node, tag) ==
    SubSeqAt(node.kids,
             {i \in DOMAIN node.kids :
                 IsElem(node.kids[i]) /\ node.kids[i].tag = tag})

\* "".join(elem.itertext())
RECURSIVE itertext(_)
itertext(node) ==
    LET RECURSIVE F(_)
        F(i) == IF i > Len(node.kids) THEN <<>>
                ELSE (IF IsElem(node.kids[i]) THEN itertext(node.kids[i])
                      ELSE <<node.kids[i]>>) \o F(i + 1)
    IN F(1)

(***************************************************************************)
(* parse_steps_from_tcm_field                                              *)
(***************************************************************************)
\* re.sub(r"&(?!(lt|gt|amp|apos|quot);|#\d+;|#x[0-9A-Fa-f]+;)", "&amp;", s,
\*        flags=re.IGNORECASE) on one item
escape_amp(t) ==
    IF IsBareAmp(t) THEN Amp(1)
    ELSE IF IsUndefinedEntity(t) /\ ~MatchesPredefinedIgnoringCase(t)
    THEN [t EXCEPT !.e = 1]
    ELSE t

\* _sanitize_for_xml: control characters removed, then ampersands escaped
_sanitize_for_xml(s) ==
    LET kept == SubSeqAt(s, {i \in DOMAIN s : ~IsCtrl(s[i])})
    IN  [i \in DOMAIN kept |-> escape_amp(kept[i])]

\* _try_parse: exc tells whether an exception leaves the helper
_try_parse_uncaught(xml_text) ==
    LET r == fromstring(xml_text)
    IN  [exc |-> ~r.ok, ok |-> r.ok, root |-> r.root]

_try_parse(xml_text) ==
    LET r == fromstring(xml_text)
    IN  [exc |-> FALSE, ok |-> r.ok, root |-> r.root]

\* "&lt;steps" in raw.lower()
has_escaped_steps(raw) ==
    \E i \in DOMAIN raw : raw[i].k = "open" /\ raw[i].n = "steps" /\ raw[i].e = 1

IsStepsOpen(t) == IsMarkup(t) /\ t.k = "open" /\ t.n = "steps"
IsStepsClose(t) == IsMarkup(t) /\ t.k = "close" /\ t.n = "steps"

\* the region a greedy pattern (<steps\b.*</steps>) would select
steps_region_greedy(unescaped) ==
    LET opens == {i \in DOMAIN unescaped : IsStepsOpen(unescaped[i])}
        first == CHOOSE i \in opens : \A j \in opens : i <= j
        closes == IF opens = {} THEN {}
                  ELSE {j \in DOMAIN unescaped :
                            j > first /\ IsStepsClose(unescaped[j])}
        last == CHOOSE j \in closes : \A m \in closes : j >= m
    IN  IF closes = {} THEN unescaped ELSE SubSeq(unescaped, first, last)

\* re.search(r"(<steps\b.*?</steps>)", unescaped, DOTALL | IGNORECASE)
\* followed by  m.group(1) if m else unescaped
steps_region(unescaped) ==
    LET opens == {i \in DOMAIN unescaped : IsStepsOpen(unescaped[i])}
        first == CHOOSE i \in opens : \A j \in opens : i <= j
        closes == IF opens = {} THEN {}
                  ELSE {j \in DOMAIN unescaped :
                            j > first /\ IsStepsClose(unescaped[j])}
        last == CHOOSE j \in closes : \A m \in closes : j <= m
    IN  IF closes = {} THEN unescaped ELSE SubSeq(unescaped, first, last)

\* m is not None
steps_match(unescaped) ==
    \E i, j \in DOMAIN unescaped :
        i < j /\ IsStepsOpen(unescaped[i]) /\ IsStepsClose(unescaped[j])

\* the value of xml_blob after line 214 (before it is sanitized)
xml_blob_local(v) ==
    IF v.isNone \/ Len(v.s) = 0 THEN NotReached
    ELSE
    LET raw == Strip(v.s)
        a == _try_parse(raw)
        unescaped == unescape(raw)
    IN  IF ~a.exc /\ (~a.ok \/ has_escaped_steps(raw))
        THEN [reached |-> TRUE, matched |-> steps_match(unescaped),
              text |-> steps_region(unescaped)]
        ELSE NotReached

text_of(ps, n) == IF Len(ps) >= n THEN itertext(ps[n]) ELSE <<>>

\* the record the loop body builds for one step element
step_record(step) ==
    LET ps == findall_children(step, "parameterizedString")
    IN  [action |-> _clean(text_of(ps, 1)), expected |-> _clean(text_of(ps, 2))]

\* the loop over root.findall(".//step")
collect_steps(steps) ==
    LET recs == [i \in DOMAIN steps |-> step_record(steps[i])]
    IN  SelectSeq(recs, LAMBDA r : Len(r.action) > 0 \/ Len(r.expected) > 0)

parse_steps_from_tcm_field(v) ==
    IF v.isNone \/ Len(v.s) = 0
    THEN [called |-> TRUE, raised |-> FALSE, attempt_ok |-> <<>>, out |-> <<>>]
    ELSE
    LET raw == Strip(v.s)
        a == _try_parse(raw)
        strategyB == ~a.exc /\ (~a.ok \/ has_escaped_steps(raw))
        b == _try_parse(_sanitize_for_xml(steps_region(unescape(raw))))
        last == IF strategyB THEN b ELSE a
        tried == IF strategyB THEN <<a.ok, b.ok>> ELSE <<a.ok>>
    IN  IF last.exc
        THEN [called |-> TRUE, raised |-> TRUE, attempt_ok |-> tried,
              out |-> <<>>]
        ELSE IF ~last.ok
        THEN [called |-> TRUE, raised |-> FALSE, attempt_ok |-> tried,
              out |-> <<>>]
        ELSE [called |-> TRUE, raised |-> FALSE, attempt_ok |-> tried,
              out |-> collect_steps(findall_below(last.root, "step"))]

(***************************************************************************)
(* The steps field as the tracker delivers it: a few fragments, the whole  *)
(* HTML-escaped zero or more times by the rich-text editor.                *)
(***************************************************************************)
PS(t) == <<Open("parameterizedString", 0)>> \o t
            \o <<Close("parameterizedString", 0)>>

StepMarkup(action, expected) ==
    <<Open("step", 0)>> \o PS(action) \o PS(expected) \o <<Close("step", 0)>>

Fragments ==
    { <<Open("steps", 0)>>, <<Close("steps", 0)>>,
      <<Open("step", 0)>>, <<Close("step", 0)>>,
      StepMarkup(<<Chr("a")>>, <<>>),
      StepMarkup(<<Open("b", 0), Chr("b"), Close("b", 0)>>, <<Chr("a")>>),
      StepMarkup(<<Chr("a"), Open("steps", 1)>>, <<>>),
      StepMarkup(<<Chr("a"), Amp(0), CTRL, Chr("b")>>, <<>>) }

RECURSIVE Flatten(_)
Flatten(ss) == IF ss = <<>> THEN <<>> ELSE Head(ss) \o Flatten(Tail(ss))

\* html.escape applied k times to the whole text
IsEscapable(t) == IsTag(t) \/ t.n = "&" \/ t.k = "ent" \/ t.e > 0
Escaped(s, k) ==
    [i \in DOMAIN s |-> IF IsEscapable(s[i]) THEN [s[i] EXCEPT !.e = @ + k]
                        ELSE s[i]]

FieldValues ==
    {[isNone |-> TRUE, s |-> <<>>]}
        \cup {[isNone |-> FALSE, s |-> Escaped(Flatten(fs), k)] :
                fs \in SeqsUpTo(Fragments, MaxFrags), k \in 0..MaxEsc}

InitParse ==
    /\ steps_field_value \in FieldValues
    /\ parse_result = Idle
    /\ xml_blob = NotReached
    /\ CleanUnused
    /\ SanitizeUnused
    /\ ExtractUnused
    /\ PayloadUnused
    /\ ConvUnused

ParseStepsField ==
    /\ ~parse_result.called
    /\ parse_result' = parse_steps_from_tcm_field(steps_field_value)
    /\ xml_blob' = xml_blob_local(steps_field_value)
    /\ UNCHANGED <<steps_field_value, cleanVars, sanitizeVars, extractVars, payloadVars,
                   convVars>>

NextParse == ParseStepsField

SpecParse == InitParse /\ [][NextParse]_vars

\* C1: parse_steps_from_tcm_field never raises; when every parse attempt
\* failed the result is the empty sequence; an empty or null input returns
\* the empty sequence without any parse attempt.
ParseNeverRaises ==
    parse_result.called =>
        /\ ~parse_result.raised
        /\ (\A i \in DOMAIN parse_result.attempt_ok :
                ~parse_result.attempt_ok[i]) => parse_result.out = <<>>
        /\ (steps_field_value.isNone \/ steps_field_value.s = <<>>) =>
                parse_result.attempt_ok = <<>>

\* both attempts ran on a field with a stray ampersand and both failed
BothAttemptsFailed ==
    /\ parse_result.called
    /\ parse_result.attempt_ok = <<FALSE, FALSE>>
    /\ \E i \in DOMAIN steps_field_value.s :
            IsBareAmp(steps_field_value.s[i])
    /\ parse_result.out = <<>>

\* every step element of a document, the root included, in document order
AllStepElements(root) ==
    (IF root.tag = "step" THEN <<root>> ELSE <<>>) \o findall_below(root, "step")

\* C2: for well-formed markup with N step elements with non-empty text the
\* result is exactly those N records, in document order.
WellFormedYieldsEveryStep ==
    (parse_result.called /\ ~steps_field_value.isNone
        /\ fromstring(Strip(steps_field_value.s)).ok) =>
            /\ ~parse_result.raised
            /\ parse_result.out =
                 collect_steps(AllStepElements(
                     fromstring(Strip(steps_field_value.s)).root))

(***************************************************************************)
(* JSON.  A value is [t, v]: a scalar carries its literal text, a list a   *)
(* sequence of values, a dict a function from key names to values.  JSON   *)
(* text is a sequence of items: punctuation, a key with its colon, a       *)
(* literal, whitespace, or a word of prose.                                *)
(***************************************************************************)
Scalar(lit) == [t |-> "scalar", v |-> lit]
List(seq) == [t |-> "list", v |-> seq]
Dict(f) == [t |-> "dict", v |-> f]
NoValue == [t |-> "none", v |-> "none"]

IsDict(x) == x.t = "dict"
IsList(x) == x.t = "list"
IsNull(x) == x.t = "scalar" /\ x.v = "null"

EmptyDict == Dict(<<>>)
Has(d, key) == key \in DOMAIN d.v
Put(d, key, val) ==
    Dict([x \in DOMAIN d.v \cup {key} |-> IF x = key THEN val ELSE d.v[x]])
Pop(d, key) == Dict([x \in DOMAIN d.v \ {key} |-> d.v[x]])

P(c) == [k |-> "punct", v |-> c]
Key(name) == [k |-> "key", v |-> name]
Lit(text) == [k |-> "lit", v |-> text]
Word == [k |-> "prose", v |-> "p"]
WS == [k |-> "ws", v |-> " "]

IsP(t, c) == t.k = "punct" /\ t.v = c

JsonError == [ok |-> FALSE, value |-> NoValue, next |-> 0]

\* the JSON decoder at item i of s: value, then the index after it
RECURSIVE JValue(_, _)
RECURSIVE JMembers(_, _, _)
RECURSIVE JElements(_, _, _)
JValue(s, i) ==
    IF i > Len(s) THEN JsonError
    ELSE IF s[i].k = "lit"
    THEN [ok |-> TRUE, value |-> Scalar(s[i].v), next |-> i + 1]
    ELSE IF IsP(s[i], "{")
    THEN IF i + 1 <= Len(s) /\ IsP(s[i + 1], "}")
         THEN [ok |-> TRUE, value |-> EmptyDict, next |-> i + 2]
         ELSE JMembers(s, i + 1, EmptyDict)
    ELSE IF IsP(s[i], "[")
    THEN IF i + 1 <= Len(s) /\ IsP(s[i + 1], "]")
         THEN [ok |-> TRUE, value |-> List(<<>>), next |-> i + 2]
         ELSE JElements(s, i + 1, <<>>)
    ELSE JsonError

JMembers(s, i, acc) ==
    IF i > Len(s) \/ s[i].k # "key" THEN JsonError
    ELSE LET r == JValue(s, i + 1) IN
         IF ~r.ok \/ r.next > Len(s) THEN JsonError
         ELSE LET d == Put(acc, s[i].v, r.value) IN   \* a repeated key: last wins
              IF IsP(s[r.next], ",") THEN JMembers(s, r.next + 1, d)
              ELSE IF IsP(s[r.next], "}")
              THEN [ok |-> TRUE, value |-> d, next |-> r.next + 1]
              ELSE JsonError

JElements(s, i, acc) ==
    LET r == JValue(s, i) IN
    IF ~r.ok \/ r.next > Len(s) THEN JsonError
    ELSE LET l == Append(acc, r.value) IN
         IF IsP(s[r.next], ",") THEN JElements(s, r.next + 1, l)
         ELSE IF IsP(s[r.next], "]")
         THEN [ok |-> TRUE, value |-> List(l), next |-> r.next + 1]
         ELSE JsonError

\* json.loads: whitespace between items is skipped, the whole text is used
json_loads(text) ==
    LET s == SelectSeq(text, LAMBDA t : t.k # "ws")
        r == JValue(s, 1)
    IN  IF r.ok /\ r.next = Len(s) + 1 THEN [ok |-> TRUE, value |-> r.value]
        ELSE [ok |-> FALSE, value |-> NoValue]

\* text.strip()
RECURSIVE JStrip(_)
JStrip(s) ==
    IF s # <<>> /\ Head(s) = WS THEN JStrip(Tail(s))
    ELSE IF s # <<>> /\ s[Len(s)] = WS THEN JStrip(SubSeq(s, 1, Len(s) - 1))
    ELSE s

\* re.search(r"\{.*\}", text, flags=re.DOTALL): the matched span or <<>>
brace_region(text) ==
    LET opens == {i \in DOMAIN text : IsP(text[i], "{")}
        first == CHOOSE i \in opens : \A j \in opens : i <= j
        closes == IF opens = {} THEN {}
                  ELSE {j \in DOMAIN text : j > first /\ IsP(text[j], "}")}
        last == CHOOSE j \in closes : \A m \in closes : j >= m
    IN  IF closes = {} THEN <<>> ELSE SubSeq(text, first, last)

\* the value of candidate after line 72
candidate_local(text0) ==
    LET text == JStrip(text0)
        direct == json_loads(text)
    IN  IF (direct.ok /\ IsDict(direct.value)) \/ brace_region(text) = <<>>
        THEN NotReached
        ELSE [reached |-> TRUE, text |-> brace_region(text)]

Returned(obj) == [called |-> TRUE, outcome |-> "returned", obj |-> obj]
Raised(what) == [called |-> TRUE, outcome |-> what, obj |-> NoValue]

extract_json_object_direct_only(text0) ==
    LET text == JStrip(text0)
        direct == json_loads(text)
    IN  IF direct.ok /\ IsDict(direct.value) THEN Returned(direct.value)
        ELSE Raised("NoJsonFound")

extract_json_object_absorbing(text0) ==
    LET text == JStrip(text0)
        direct == json_loads(text)
        candidate == brace_region(text)
        parsed == json_loads(candidate)
    IN  IF direct.ok /\ IsDict(direct.value) THEN Returned(direct.value)
        ELSE IF candidate = <<>> THEN Raised("NoJsonFound")
        ELSE IF ~parsed.ok THEN Raised("NoJsonFound")
        ELSE IF ~IsDict(parsed.value) THEN Raised("NotAnObject")
        ELSE Returned(parsed.value)

extract_json_object(text0) ==
    LET text == JStrip(text0)
        direct == json_loads(text)
        candidate == brace_region(text)
        parsed == json_loads(candidate)
    IN  IF direct.ok /\ IsDict(direct.value) THEN Returned(direct.value)
        ELSE IF candidate = <<>> THEN Raised("NoJsonFound")
        ELSE IF ~parsed.ok THEN Raised("JSONDecodeError")
        ELSE IF ~IsDict(parsed.value) THEN Raised("NotAnObject")
        ELSE Returned(parsed.value)

(***************************************************************************)
(* extract_json_object called on a model output                            *)
(***************************************************************************)
JsonItems == {P("{"), P("}"), Key("a"), Lit("1"), Word, WS}

InitExtract ==
    /\ output_text \in SeqsUpTo(JsonItems, MaxJson)
    /\ extract_result = Idle
    /\ json_candidate = NotReached
    /\ CleanUnused
    /\ SanitizeUnused
    /\ ParseUnused
    /\ PayloadUnused
    /\ ConvUnused

ExtractJson ==
    /\ ~extract_result.called
    /\ extract_result' = extract_json_object(output_text)
    /\ json_candidate' = candidate_local(output_text)
    /\ UNCHANGED <<output_text, cleanVars, sanitizeVars, parseVars, payloadVars, convVars>>

NextExtract == ExtractJson

SpecExtract == InitExtract /\ [][NextExtract]_vars

\* the text json.dumps writes for a value, keys in the order of keyOrder
RECURSIVE Ser(_, _)
Ser(x, keyOrder) ==
    LET RECURSIVE Items(_)
        Items(i) ==
            IF i > Len(x.v) THEN <<>>
            ELSE (IF i > 1 THEN <<P(",")>> ELSE <<>>)
                    \o Ser(x.v[i], keyOrder) \o Items(i + 1)
        keys == SelectSeq(keyOrder, LAMBDA name : name \in DOMAIN x.v)
        RECURSIVE Members(_)
        Members(i) ==
            IF i > Len(keys) THEN <<>>
            ELSE (IF i > 1 THEN <<P(",")>> ELSE <<>>)
                    \o <<Key(keys[i])>> \o Ser(x.v[keys[i]], keyOrder)
                    \o Members(i + 1)
    IN  IF x.t = "scalar" THEN <<Lit(x.v)>>
        ELSE IF x.t = "list" THEN <<P("[")>> \o Items(1) \o <<P("]")>>
        ELSE <<P("{")>> \o Members(1) \o <<P("}")>>

\* the mappings whose text fits in a model output of the bounded length
SmallObjects ==
    { EmptyDict,
      Dict([x \in {"a"} |-> Scalar("1")]),
      Dict([x \in {"a"} |-> EmptyDict]),
      Dict([x \in {"a"} |-> Dict([y \in {"a"} |-> Scalar("1")])]) }

\* prose and code fencing around an object: words and whitespace, possibly
\* with a brace among the words, and holding no JSON value of its own
ProseItems == {Word, WS, P("{"), P("}")}
IsProse(s) ==
    /\ \A i \in DOMAIN s : s[i] \in ProseItems
    /\ (\E i \in DOMAIN s : s[i].k = "punct") => (\E i \in DOMAIN s : s[i] = Word)
    /\ \A i, j \in DOMAIN s :
         i <= j => ~(json_loads(SubSeq(s, i, j)).ok)

\* the ways text splits into prose, the text of obj, prose
Embeddings(text, obj) ==
    LET body == Ser(obj, <<"a">>) IN
    { i \in 1..(Len(text) + 1) :
        /\ i + Len(body) - 1 <= Len(text)
        /\ SubSeq(text, i, i + Len(body) - 1) = body
        /\ IsProse(SubSeq(text, 1, i - 1))
        /\ IsProse(SubSeq(text, i + Len(body), Len(text))) }

HasBrace(s, c) == \E i \in DOMAIN s : IsP(s[i], c)

PureJsonReturned ==
    \A obj \in SmallObjects :
        JStrip(output_text) = Ser(obj, <<"a">>) =>
            extract_result = Returned(obj)

NoBracesNoJsonFound ==
    (~ \E i, j \in DOMAIN output_text :
          i < j /\ IsP(output_text[i], "{") /\ IsP(output_text[j], "}")) =>
        extract_result = Raised("NoJsonFound")

\* C4 (as stated): pure JSON text of a mapping is returned unchanged; a
\* single object surrounded by prose or code fencing is returned; a text
\* with no '{' followed later by '}' fails with NoJsonFound.
ExtractReturnsEmbeddedObject ==
    extract_result.called =>
        /\ PureJsonReturned
        /\ \A obj \in SmallObjects :
              Embeddings(output_text, obj) # {} =>
                  extract_result = Returned(obj)
        /\ NoBracesNoJsonFound

\* C4 (amended): as stated, for an object surrounded by prose that has no
\* '{' before the object and no '}' after it.
ExtractReturnsObjectInBraceFreeProse ==
    extract_result.called =>
        /\ PureJsonReturned
        /\ \A obj \in SmallObjects :
              (\E i \in Embeddings(output_text, obj) :
                  /\ ~HasBrace(SubSeq(output_text, 1, i - 1), "{")
                  /\ ~HasBrace(SubSeq(output_text,
                                      i + Len(Ser(obj, <<"a">>)),
                                      Len(output_text)), "}")) =>
                  extract_result = Returned(obj)
        /\ NoBracesNoJsonFound

\* an object between two words of prose was recovered by the fallback
ObjectRecoveredFromProse ==
    /\ extract_result.called
    /\ extract_result.outcome = "returned"
    /\ Len(output_text) >= 4
    /\ output_text[1] = Word
    /\ output_text[Len(output_text)] = Word
    /\ ~json_loads(JStrip(output_text)).ok

\* C5: a candidate region that does not parse propagates the parse error,
\* a parsed candidate that is not a mapping fails with NotAnObject, only a
\* mapping is ever returned, and only the first whole-text attempt is caught.
StrictStageNeverAbsorbed ==
    extract_result.called =>
        LET text == JStrip(output_text)
            whole == json_loads(text)
            region == brace_region(text)
        IN  /\ extract_result.outcome = "returned" => IsDict(extract_result.obj)
            /\ (~(whole.ok /\ IsDict(whole.value)) /\ region # <<>>
                    /\ ~json_loads(region).ok) =>
                  extract_result = Raised("JSONDecodeError")
            /\ (~(whole.ok /\ IsDict(whole.value)) /\ region # <<>>
                    /\ json_loads(region).ok
                    /\ ~IsDict(json_loads(region).value)) =>
                  extract_result = Raised("NotAnObject")
            /\ (~whole.ok /\ region # <<>> /\ json_loads(region).ok) =>
                  extract_result.outcome = "returned"

\* the whole text failed to parse, a region was found, and it failed too
RegionParseErrorPropagated ==
    /\ extract_result.called
    /\ extract_result.outcome = "JSONDecodeError"
    /\ HasBrace(output_text, "{")
    /\ \E i \in DOMAIN output_text : output_text[i] = Word

(***************************************************************************)
(* config.py                                                               *)
(***************************************************************************)
REQUIRED_TOP_LEVEL_KEYS ==
    <<"name", "description", "preconditions", "tags", "automated_steps",
      "artifacts", "references", "diagnostics">>

REQUIRED_STEP_KEYS == <<"id", "keyword", "params">>

Range(seq) == {seq[i] : i \in DOMAIN seq}

(***************************************************************************)
(* ensure_step_defaults                                                    *)
(***************************************************************************)
Str(text) == Scalar("\"" \o text \o "\"")

\* Python truth value of a JSON value
Truthy(x) ==
    IF x.t = "scalar" THEN x.v \notin {"null", "false", "0", "\"\""}
    ELSE IF x.t = "list" THEN Len(x.v) > 0
    ELSE DOMAIN x.v # {}

\* f"S{i:03d}"
step_id(i) ==
    Str("S" \o (IF i < 10 THEN "00" ELSE IF i < 100 THEN "0" ELSE "")
            \o ToString(i))

fill_id(st, i) ==
    IF Has(st, "id") /\ Truthy(st.v["id"]) THEN st
    ELSE Put(st, "id", step_id(i))

fill_keyword_missing_only(st) ==
    IF ~Has(st, "keyword") THEN Put(st, "keyword", Str("")) ELSE st

fill_keyword(st) ==
    IF ~Has(st, "keyword") \/ IsNull(st.v["keyword"])
    THEN Put(st, "keyword", Str(""))
    ELSE st

fill_params_always_wrap(st) ==
    IF ~Has(st, "params") \/ IsNull(st.v["params"])
    THEN Put(st, "params", List(<<>>))
    ELSE Put(st, "params", List(<<st.v["params"]>>))

fill_params_keep_scalar(st) ==
    IF ~Has(st, "params") \/ IsNull(st.v["params"])
    THEN Put(st, "params", List(<<>>))
    ELSE st

fill_params(st) ==
    IF ~Has(st, "params") \/ IsNull(st.v["params"])
    THEN Put(st, "params", List(<<>>))
    ELSE IF ~IsList(st.v["params"])
    THEN Put(st, "params", List(<<st.v["params"]>>))
    ELSE st

ensure_step_defaults(p) ==
    IF ~Has(p, "automated_steps") \/ ~IsList(p.v["automated_steps"]) THEN p
    ELSE LET steps == p.v["automated_steps"].v IN
         Put(p, "automated_steps",
             List([i \in DOMAIN steps |->
                     IF ~IsDict(steps[i]) THEN steps[i]
                     ELSE fill_params(fill_keyword(fill_id(steps[i], i)))]))

(***************************************************************************)
(* validate_payload.  check is the number of the check that failed:        *)
(* 1 top-level keys, 2 automated_steps a non-empty list, 3 an element that *)
(* is no mapping or lacks a step key, 4 an element whose params is no list *)
(***************************************************************************)
Accepted ==
    [called |-> TRUE, outcome |-> "accepted", check |-> 0, missing |-> <<>>,
     index |-> -1, key |-> ""]
Rejected(check, missing, index, key) ==
    [called |-> TRUE, outcome |-> "ValueError", check |-> check,
     missing |-> missing, index |-> index, key |-> key]

missing_keys(d, required) ==
    SelectSeq(required, LAMBDA name : ~Has(d, name))

step_check_without_params(st) ==
    IF ~IsDict(st) THEN 3
    ELSE IF missing_keys(st, REQUIRED_STEP_KEYS) # <<>> THEN 3
    ELSE 0

\* the checks of the loop body on element st, 0 when it passes
step_check(st) ==
    IF ~IsDict(st) THEN 3
    ELSE IF missing_keys(st, REQUIRED_STEP_KEYS) # <<>> THEN 3
    ELSE IF ~IsList(st.v["params"]) THEN 4
    ELSE 0

validate_payload(p) ==
    LET missing == missing_keys(p, REQUIRED_TOP_LEVEL_KEYS) IN
    IF missing # <<>> THEN Rejected(1, missing, -1, "")
    ELSE LET steps == p.v["automated_steps"] IN
    IF ~IsList(steps) \/ Len(steps.v) = 0 THEN Rejected(2, <<>>, -1, "")
    ELSE LET bad == {i \in DOMAIN steps.v : step_check(steps.v[i]) # 0} IN
    IF bad = {} THEN Accepted
    ELSE LET i == CHOOSE j \in bad : \A m \in bad : j <= m
             st == steps.v[i]
         IN  Rejected(step_check(st), <<>>, i - 1,
                      IF IsDict(st) /\ step_check(st) = 3
                      THEN Head(missing_keys(st, REQUIRED_STEP_KEYS))
                      ELSE IF step_check(st) = 4 THEN "params" ELSE "")

(***************************************************************************)
(* The objects a model may answer with                                     *)
(***************************************************************************)
Absent == [t |-> "absent", v |-> "absent"]

\* the mapping with the keys of fields whose value is not Absent
Mapping(fields) ==
    Dict([name \in {n \in DOMAIN fields : fields[n] # Absent} |-> fields[name]])

StepEntries ==
    { Mapping([id |-> i, keyword |-> kw, params |-> ps, comment |-> Absent]) :
        i \in {Absent, Scalar("0"), Str("A")},
        kw \in {Absent, Scalar("null"), Str("tap")},
        ps \in {Absent, Scalar("null"), List(<<Str("x")>>), Str("btn")} }
      \cup { Str("tap"),
             Mapping([id |-> Str("A"), keyword |-> Str("tap"),
                      params |-> List(<<>>), comment |-> Str("c")]),
             Mapping([id |-> Absent, keyword |-> Absent, params |-> Absent,
                      comment |-> Str("c")]) }

StepsValues(entries, n) ==
    {Absent, Str("none")} \cup {List(l) : l \in SeqsUpTo(entries, n)}

TopLevel(steps, references, absentKeys) ==
    Mapping([name \in Range(REQUIRED_TOP_LEVEL_KEYS) |->
               IF name \in absentKeys THEN Absent
               ELSE IF name = "automated_steps" THEN steps
               ELSE IF name = "references" THEN references
               ELSE IF name \in {"preconditions", "tags"} THEN List(<<>>)
               ELSE IF name \in {"artifacts", "diagnostics"} THEN EmptyDict
               ELSE Str("t")])

AbsentKeySets == {{}, {"tags"}, {"name", "diagnostics"}}

Payloads ==
    { TopLevel(steps, EmptyDict, absent) :
        steps \in StepsValues(StepEntries, MaxSteps), absent \in AbsentKeySets }

(***************************************************************************)
(* ensure_step_defaults called repeatedly on an object                     *)
(***************************************************************************)
InitRepair ==
    /\ payload \in Payloads
    /\ given = payload
    /\ repaired = <<>>
    /\ validation = Idle
    /\ CleanUnused
    /\ SanitizeUnused
    /\ ParseUnused
    /\ ExtractUnused
    /\ ConvUnused

EnsureStepDefaults ==
    /\ Len(repaired) < MaxRepairs
    /\ payload' = ensure_step_defaults(payload)
    /\ repaired' = Append(repaired, payload')
    /\ UNCHANGED <<given, validation, cleanVars, sanitizeVars, parseVars, extractVars,
                   convVars>>

NextRepair == EnsureStepDefaults

SpecRepair == InitRepair /\ [][NextRepair]_vars

\* the ids the reference repair writes at positions 1, 2, ...
ReferenceIds == <<Str("S001"), Str("S002"), Str("S003"), Str("S004")>>

ReferenceStep(before, after, i) ==
    IF ~IsDict(before) THEN after = before
    ELSE /\ IsDict(after)
         /\ DOMAIN after.v = DOMAIN before.v \cup {"id", "keyword", "params"}
         /\ \A name \in DOMAIN before.v \ {"id", "keyword", "params"} :
                after.v[name] = before.v[name]
         /\ after.v["id"] =
                IF "id" \in DOMAIN before.v /\ Truthy(before.v["id"])
                THEN before.v["id"] ELSE ReferenceIds[i]
         /\ after.v["keyword"] =
                IF "keyword" \in DOMAIN before.v
                    /\ before.v["keyword"] # Scalar("null")
                THEN before.v["keyword"] ELSE Str("")
         /\ after.v["params"] =
                IF "params" \notin DOMAIN before.v
                    \/ before.v["params"] = Scalar("null")
                THEN List(<<>>)
                ELSE IF before.v["params"].t = "list" THEN before.v["params"]
                ELSE List(<<before.v["params"]>>)

ReferenceRepair(before, after) ==
    IF "automated_steps" \notin DOMAIN before.v
        \/ before.v["automated_steps"].t # "list"
    THEN after = before
    ELSE /\ DOMAIN after.v = DOMAIN before.v
         /\ \A name \in DOMAIN before.v \ {"automated_steps"} :
                after.v[name] = before.v[name]
         /\ after.v["automated_steps"].t = "list"
         /\ Len(after.v["automated_steps"].v)
                = Len(before.v["automated_steps"].v)
         /\ \A i \in DOMAIN before.v["automated_steps"].v :
                ReferenceStep(before.v["automated_steps"].v[i],
                              after.v["automated_steps"].v[i], i)

RepairIdempotent ==
    Len(repaired) >= 2 => repaired[2] = repaired[1]

\* the first call changed the object and the second call ran
RepairedTwiceAfterChange ==
    /\ Len(repaired) >= 2
    /\ repaired[1] # given
    /\ \E i \in DOMAIN given.v["automated_steps"].v :
          IsDict(given.v["automated_steps"].v[i])
            /\ ~Has(given.v["automated_steps"].v[i], "id")

(***************************************************************************)
(* validate_payload called on an object                                    *)
(***************************************************************************)
InitValidate ==
    /\ payload \in Payloads
    /\ given = payload
    /\ repaired = <<>>
    /\ validation = Idle
    /\ CleanUnused
    /\ SanitizeUnused
    /\ ParseUnused
    /\ ExtractUnused
    /\ ConvUnused

ValidatePayload ==
    /\ ~validation.called
    /\ validation' = validate_payload(payload)
    /\ UNCHANGED <<payload, given, repaired, cleanVars, sanitizeVars, parseVars, extractVars,
                   convVars>>

NextValidate == ValidatePayload

SpecValidate == InitValidate /\ [][NextValidate]_vars

\* the four checks of the claim on an object
TopLevelKeysPresent(p) ==
    \A i \in DOMAIN REQUIRED_TOP_LEVEL_KEYS :
        REQUIRED_TOP_LEVEL_KEYS[i] \in DOMAIN p.v
StepsNonEmptyList(p) ==
    /\ "automated_steps" \in DOMAIN p.v
    /\ p.v["automated_steps"].t = "list"
    /\ Len(p.v["automated_steps"].v) > 0
WellKeyedStep(st) == st.t = "dict" /\ {"id", "keyword", "params"} \subseteq DOMAIN st.v
ListParams(st) ==
    st.t = "dict" /\ "params" \in DOMAIN st.v => st.v["params"].t = "list"

EveryStepWellKeyed(p) ==
    \A i \in DOMAIN p.v["automated_steps"].v :
        WellKeyedStep(p.v["automated_steps"].v[i])
EveryParamsList(p) ==
    \A i \in DOMAIN p.v["automated_steps"].v :
        ListParams(p.v["automated_steps"].v[i])

\* what every reading of the claim shares: checks 1 and 2 come first, the
\* missing keys are listed exactly, acceptance needs all four checks, and
\* the object is left as it was
ValidateCommon ==
    /\ payload = given
    /\ ~TopLevelKeysPresent(given) =>
          /\ validation.check = 1
          /\ Range(validation.missing) =
                Range(REQUIRED_TOP_LEVEL_KEYS) \ DOMAIN given.v
          /\ Len(validation.missing) = Cardinality(Range(validation.missing))
    /\ (TopLevelKeysPresent(given) /\ ~StepsNonEmptyList(given)) =>
          validation.check = 2
    /\ validation.outcome = "accepted" <=>
          /\ TopLevelKeysPresent(given)
          /\ StepsNonEmptyList(given)
          /\ EveryStepWellKeyed(given)
          /\ EveryParamsList(given)

\* C8 (as stated): the checks run in the order 1, 2, 3, 4, each over the
\* whole object, and the call fails at the first violated one.
ValidateFailsAtFirstCheck ==
    validation.called =>
        /\ ValidateCommon
        /\ (TopLevelKeysPresent(given) /\ StepsNonEmptyList(given)) =>
              /\ ~EveryStepWellKeyed(given) => validation.check = 3
              /\ (EveryStepWellKeyed(given) /\ ~EveryParamsList(given)) =>
                    validation.check = 4

\* C8 (amended): checks 1 and 2 run first; checks 3 and 4 run element by
\* element in list order, 3 before 4 on each element, and the call fails
\* at the first element that violates either.
ValidateFailsAtFirstElement ==
    validation.called =>
        /\ ValidateCommon
        /\ (TopLevelKeysPresent(given) /\ StepsNonEmptyList(given)) =>
              LET steps == given.v["automated_steps"].v IN
              \A i \in DOMAIN steps :
                  (\A j \in 1..(i - 1) :
                        WellKeyedStep(steps[j]) /\ ListParams(steps[j])) =>
                      /\ ~WellKeyedStep(steps[i]) =>
                            validation.check = 3 /\ validation.index = i - 1
                      /\ (WellKeyedStep(steps[i]) /\ ~ListParams(steps[i])) =>
                            validation.check = 4 /\ validation.index = i - 1

\* a list whose first element has scalar params and whose second element
\* is no mapping was rejected
MixedStepsRejected ==
    /\ validation.called
    /\ TopLevelKeysPresent(given) /\ StepsNonEmptyList(given)
    /\ Len(given.v["automated_steps"].v) = 2
    /\ WellKeyedStep(given.v["automated_steps"].v[1])
    /\ ~ListParams(given.v["automated_steps"].v[1])
    /\ ~WellKeyedStep(given.v["automated_steps"].v[2])
    /\ validation.outcome = "ValueError"

(***************************************************************************)
(* run_conversion, from the model's output text to the returned object,    *)
(* one statement at a time                                                 *)
(***************************************************************************)
\* refs = payload.get("references"); if not a dict: refs = {};
\* refs["steps"] = list(azure_steps); payload["references"] = refs
merge_references_fresh(p, steps) ==
    Put(p, "references", Put(EmptyDict, "steps", List(steps)))

merge_references(p, steps) ==
    LET refs == IF Has(p, "references") /\ IsDict(p.v["references"])
                THEN p.v["references"] ELSE EmptyDict
    IN  Put(p, "references", Put(refs, "steps", List(steps)))

\* the three payload.pop(key, None) statements
strip_forbidden(p) ==
    Pop(Pop(Pop(p, "required_top_level_keys"), "required_keys"), "azure_steps")

ForbiddenKeys == {"required_top_level_keys", "required_keys", "azure_steps"}

KeyOrder ==
    REQUIRED_TOP_LEVEL_KEYS
        \o <<"required_top_level_keys", "required_keys", "azure_steps">>
        \o REQUIRED_STEP_KEYS
        \o <<"comment", "azure_tc_id", "steps", "action", "expected">>

ConvStepEntries ==
    { Str("tap"),
      EmptyDict,
      Mapping([id |-> Absent, keyword |-> Scalar("null"),
               params |-> Str("btn"), comment |-> Absent]),
      Mapping([id |-> Str("A"), keyword |-> Str("tap"),
               params |-> List(<<Str("x")>>), comment |-> Str("c")]) }

ConvReferences ==
    { Absent, Str("r"),
      Mapping([azure_tc_id |-> Scalar("1"), steps |-> Absent]),
      Mapping([azure_tc_id |-> Scalar("1"), steps |-> List(<<Str("old")>>)]) }

WithKeys(p, names) ==
    Dict([x \in DOMAIN p.v \cup names |->
            IF x \in names THEN List(<<Str("k")>>) ELSE p.v[x]])

ConvPayloads ==
    { WithKeys(TopLevel(steps, refs, absent), extra) :
        steps \in StepsValues(ConvStepEntries, MaxSteps),
        refs \in ConvReferences,
        absent \in {{}, {"name"}},
        extra \in {{}, {"azure_steps"}, ForbiddenKeys} }

\* the ways a model writes its object: bare, inside prose or a code fence,
\* followed by a stray brace, or cut short
ConvTexts ==
    UNION { LET body == Ser(p, KeyOrder) IN
            { body,
              <<Word, WS>> \o body \o <<WS, Word>>,
              body \o <<P("}")>>,
              SubSeq(body, 1, Len(body) - 1) } : p \in ConvPayloads }
        \cup {<<Word>>}

StepRecord(action, expected) ==
    Mapping([action |-> Str(action), expected |-> Str(expected)])

StepSequences ==
    {<<>>, <<StepRecord("a", ""), StepRecord("b", "a")>>}

InitConv ==
    /\ output_text \in ConvTexts
    /\ azure_steps \in StepSequences
    /\ pc = "extract"
    /\ extract_result = Idle
    /\ json_candidate = NotReached
    /\ conv_result = Idle
    /\ payload = NoValue
    /\ given = NoValue
    /\ repaired = <<>>
    /\ validation = Idle
    /\ CleanUnused
    /\ SanitizeUnused
    /\ ParseUnused

\* payload = extract_json_object(output_text)
ConvExtract ==
    /\ pc = "extract"
    /\ extract_result' = extract_json_object(output_text)
    /\ json_candidate' = candidate_local(output_text)
    /\ IF extract_result'.outcome = "returned"
       THEN /\ payload' = extract_result'.obj
            /\ given' = extract_result'.obj
            /\ pc' = "repair"
            /\ UNCHANGED conv_result
       ELSE /\ conv_result' = Raised(extract_result'.outcome)
            /\ pc' = "done"
            /\ UNCHANGED <<payload, given>>
    /\ UNCHANGED <<output_text, azure_steps, repaired, validation, cleanVars, sanitizeVars,
                   parseVars>>

\* ensure_step_defaults(payload)
ConvRepair ==
    /\ pc = "repair"
    /\ payload' = ensure_step_defaults(payload)
    /\ repaired' = <<payload'>>
    /\ pc' = "merge"
    /\ UNCHANGED <<given, validation, azure_steps, conv_result, cleanVars, sanitizeVars,
                   parseVars, extractVars>>

ConvMerge ==
    /\ pc = "merge"
    /\ payload' = merge_references(payload, azure_steps)
    /\ pc' = "strip"
    /\ UNCHANGED <<given, repaired, validation, azure_steps, conv_result,
                   cleanVars, sanitizeVars, parseVars, extractVars>>

ConvStrip ==
    /\ pc = "strip"
    /\ payload' = strip_forbidden(payload)
    /\ pc' = "validate"
    /\ UNCHANGED <<given, repaired, validation, azure_steps, conv_result,
                   cleanVars, sanitizeVars, parseVars, extractVars>>

\* validate_payload(payload); return payload
ConvValidate ==
    /\ pc = "validate"
    /\ validation' = validate_payload(payload)
    /\ conv_result' = IF validation'.outcome = "accepted" THEN Returned(payload)
                      ELSE Raised(validation'.outcome)
    /\ pc' = "done"
    /\ UNCHANGED <<payload, given, repaired, azure_steps, cleanVars, sanitizeVars, parseVars,
                   extractVars>>

NextConv == ConvExtract \/ ConvRepair \/ ConvMerge \/ ConvStrip \/ ConvValidate

SpecConv == InitConv /\ [][NextConv]_vars

ValidStep(st) ==
    /\ st.t = "dict"
    /\ "keyword" \in DOMAIN st.v /\ st.v["keyword"] # Scalar("null")
    /\ "params" \in DOMAIN st.v /\ st.v["params"].t = "list"
    /\ "id" \in DOMAIN st.v

ValidOutput(obj) ==
    /\ obj.t = "dict"
    /\ Range(REQUIRED_TOP_LEVEL_KEYS) \subseteq DOMAIN obj.v
    /\ obj.v["automated_steps"].t = "list"
    /\ Len(obj.v["automated_steps"].v) > 0
    /\ \A i \in DOMAIN obj.v["automated_steps"].v :
          ValidStep(obj.v["automated_steps"].v[i])
    /\ DOMAIN obj.v \cap ForbiddenKeys = {}

\* C3: every object the composed conversion returns has every required
\* top-level key, a non-empty automated_steps list of mappings with a
\* non-null keyword, list params and an id, and no forbidden top-level key;
\* when extraction or validation fails no object is returned.
ReturnedObjectIsValid ==
    conv_result.called =>
        /\ conv_result.outcome = "returned" =>
              /\ ValidOutput(conv_result.obj)
              /\ extract_result.outcome = "returned"
              /\ validation.called /\ validation.outcome = "accepted"
        /\ conv_result.outcome # "returned" => conv_result.obj = NoValue
        /\ extract_result.outcome # "returned" =>
              conv_result.outcome # "returned"
        /\ (validation.called /\ validation.outcome # "accepted") =>
              conv_result.outcome # "returned"

\* an object whose step had a null keyword and scalar params, and which
\* carried forbidden keys, was repaired, stripped and returned
RepairedObjectReturned ==
    /\ conv_result.called
    /\ conv_result.outcome = "returned"
    /\ \E i \in DOMAIN given.v["automated_steps"].v :
          given.v["automated_steps"].v[i] =
              Mapping([id |-> Absent, keyword |-> Scalar("null"),
                       params |-> Str("btn"), comment |-> Absent])
    /\ ForbiddenKeys \subseteq DOMAIN given.v

Merged == pc \in {"strip", "validate"} \/ (pc = "done" /\ validation.called)

\* C9: when references is a mapping, the merge leaves every key of it other
\* than steps with its value, adds no other key, and sets references.steps
\* to the supplied StepSequence, element for element in the same order.
MergeKeepsSiblings ==
    (Merged /\ Has(repaired[1], "references")
        /\ IsDict(repaired[1].v["references"])) =>
        LET before == repaired[1].v["references"]
            after == payload.v["references"]
        IN  /\ after.t = "dict"
            /\ DOMAIN after.v = DOMAIN before.v \cup {"steps"}
            /\ \A name \in DOMAIN before.v \ {"steps"} :
                  after.v[name] = before.v[name]
            /\ after.v["steps"].t = "list"
            /\ Len(after.v["steps"].v) = Len(azure_steps)
            /\ \A i \in DOMAIN azure_steps :
                  after.v["steps"].v[i] = azure_steps[i]

\* references held a sibling key and its own steps, and two records were
\* merged in
StepsMergedBesideSibling ==
    /\ Merged
    /\ Has(repaired[1], "references")
    /\ IsDict(repaired[1].v["references"])
    /\ DOMAIN repaired[1].v["references"].v = {"azure_tc_id", "steps"}
    /\ Len(azure_steps) = 2
    /\ payload.v["references"].v["steps"] # repaired[1].v["references"].v["steps"]

(***************************************************************************)
(* The two region searches: parse_steps_from_tcm_field on a steps field    *)
(* made of several blocks, extract_json_object on a model output with      *)
(* several braces.                                                         *)
(***************************************************************************)
Block(body) == <<Open("steps", 0)>> \o body \o <<Close("steps", 0)>>

RegionFragments ==
    { Block(<<>>),
      Block(StepMarkup(<<Chr("a")>>, <<>>)),
      Block(StepMarkup(<<Chr("b")>>, <<Chr("a")>>)),
      <<Open("steps", 0)>>, <<Close("steps", 0)>>, <<Chr("a")>> }

RegionFieldValues ==
    {[isNone |-> FALSE, s |-> Escaped(Flatten(fs), k)] :
        fs \in SeqsUpTo(RegionFragments, MaxBlocks), k \in 0..MaxEsc}

InitRegion ==
    /\ \/ /\ steps_field_value \in RegionFieldValues
          /\ output_text = <<>>
       \/ /\ steps_field_value = [isNone |-> TRUE, s |-> <<>>]
          /\ output_text \in SeqsUpTo(JsonItems, MaxJson)
    /\ parse_result = Idle
    /\ xml_blob = NotReached
    /\ extract_result = Idle
    /\ json_candidate = NotReached
    /\ CleanUnused
    /\ SanitizeUnused
    /\ PayloadUnused
    /\ ConvUnused

NextRegion == ParseStepsField \/ ExtractJson

SpecRegion == InitRegion /\ [][NextRegion]_vars

MinOf(S) == CHOOSE x \in S : \A y \in S : x <= y
MaxOf(S) == CHOOSE x \in S : \A y \in S : x >= y

StepsOpens(s) == {i \in DOMAIN s : IsStepsOpen(s[i])}
StepsCloses(s) == {i \in DOMAIN s : IsStepsClose(s[i])}
BraceOpens(s) == {i \in DOMAIN s : IsP(s[i], "{")}
BraceCloses(s) == {i \in DOMAIN s : IsP(s[i], "}")}

\* the text the markup search runs on, and the text the brace search runs on
SearchedMarkup == unescape(Strip(steps_field_value.s))
SearchedOutput == JStrip(output_text)

BraceRegionFirstToLast ==
    json_candidate.reached =>
        json_candidate.text =
            SubSeq(SearchedOutput, MinOf(BraceOpens(SearchedOutput)),
                   MaxOf(BraceCloses(SearchedOutput)))

\* C11 (as stated): both searches select the span from the first opening
\* marker to the last closing marker of the whole text, the markup search
\* from the first <steps to the last </steps>, the JSON search from the
\* first { to the last }.
RegionsSpanFirstToLast ==
    /\ (xml_blob.reached /\ xml_blob.matched) =>
            xml_blob.text =
                SubSeq(SearchedMarkup, MinOf(StepsOpens(SearchedMarkup)),
                       MaxOf(StepsCloses(SearchedMarkup)))
    /\ BraceRegionFirstToLast

\* C11 (amended): the markup search selects the span from the first <steps
\* to the nearest </steps> after it (the first block when there are several
\* blocks); the JSON search selects the span from the first { to the last }.
StepsRegionEndsAtNearestClose ==
    /\ (xml_blob.reached /\ xml_blob.matched) =>
            LET first == MinOf(StepsOpens(SearchedMarkup))
            IN  xml_blob.text =
                    SubSeq(SearchedMarkup, first,
                           MinOf({j \in StepsCloses(SearchedMarkup) :
                                     j > first}))
    /\ BraceRegionFirstToLast

\* a field of several blocks was searched: the region is shorter than the
\* first-to-last span and the call returned the step of the first block
FirstOfSeveralBlocksTaken ==
    /\ parse_result.called
    /\ xml_blob.reached
    /\ xml_blob.matched
    /\ Cardinality(StepsOpens(SearchedMarkup)) >= 2
    /\ Cardinality(StepsCloses(SearchedMarkup)) >= 2
    /\ Len(xml_blob.text) < MaxOf(StepsCloses(SearchedMarkup))
                               - MinOf(StepsOpens(SearchedMarkup)) + 1
    /\ Len(parse_result.out) = 1

(***************************************************************************)
(* _sanitize_for_xml called repeatedly on a candidate text                 *)
(***************************************************************************)
SanitizeItems ==
    { Chr("a"), CTRL, Amp(0), Amp(1), NumRef, Open("b", 0), Open("b", 1),
      Ent("foo", 0), Ent("foo", 1), Ent("APOS", 0) }

InitSanitize ==
    /\ sanitize_arg \in SeqsUpTo(SanitizeItems, MaxBlob)
    /\ sanitized = <<>>
    /\ CleanUnused
    /\ ParseUnused
    /\ ExtractUnused
    /\ PayloadUnused
    /\ ConvUnused

SanitizeForXml ==
    /\ Len(sanitized) < MaxSanitizes
    /\ sanitized' = Append(sanitized,
                           _sanitize_for_xml(IF sanitized = <<>>
                                             THEN sanitize_arg
                                             ELSE sanitized[Len(sanitized)]))
    /\ UNCHANGED <<sanitize_arg, cleanVars, parseVars, extractVars,
                   payloadVars, convVars>>

NextSanitize == SanitizeForXml

SpecSanitize == InitSanitize /\ [][NextSanitize]_vars

\* the item's text starts with an ampersand
BeginsWithAmp(t) == t.e >= 1 \/ IsBareAmp(t) \/ t.k = "ent"
\* ... and that ampersand starts &lt; &gt; &amp; &apos; &quot; or a
\* character reference
BeginsLegalForm(t) == t.e >= 1

\* C12: after _sanitize_for_xml the text holds no control character and
\* every ampersand in it begins one of the five entity forms or a character
\* reference; an ampersand that did not begin such a form in the input is
\* replaced by &amp;, every other one is left unchanged; sanitizing twice
\* equals sanitizing once.
SanitizedAmpersandsAllLegal ==
    /\ Len(sanitized) >= 1 =>
          LET out == sanitized[1]
              kept == SubSeqAt(sanitize_arg,
                               {i \in DOMAIN sanitize_arg :
                                   ~IsCtrl(sanitize_arg[i])})
          IN  /\ \A i \in DOMAIN out : ~IsCtrl(out[i])
              /\ \A i \in DOMAIN out :
                    BeginsWithAmp(out[i]) => BeginsLegalForm(out[i])
              /\ Len(out) = Len(kept)
              /\ \A i \in DOMAIN kept :
                    out[i] = IF BeginsWithAmp(kept[i])
                                /\ ~BeginsLegalForm(kept[i])
                             THEN [kept[i] EXCEPT !.e = 1]
                             ELSE kept[i]
    /\ Len(sanitized) >= 2 => sanitized[2] = sanitized[1]

====
